---- MODULE Spec2Model ----
(***************************************************************************)
(* A model of convert-postman-to-md.py: the script that turns a Postman    *)
(* 2.1 collection into one Markdown page per request.                      *)
(*                                                                         *)
(* Text is modelled as TLA+ strings (TLC evaluates Len, SubSeq and \o on   *)
(* them), so every conversion of the script is computed character by       *)
(* character, the way the Python code computes it.                         *)
(*                                                                         *)
(* The module holds several specifications over the same variables:        *)
(*   Spec          the whole script run (and a second run on the same      *)
(*                 input and output directory);                            *)
(*   SpecClean     clean(s) applied to bounded inputs;                     *)
(*   SpecUrl       encode_full_url(url) applied to bounded inputs;         *)
(*   SpecResponse  gen_response_section(item) applied to bounded inputs;   *)
(*   SpecRequest   gen_request_section(item) applied to bounded inputs.    *)
(***************************************************************************)
EXTENDS Integers, Sequences, FiniteSets, TLC

VARIABLES
    pc,                 \* position of the script, or of the function call
    arg,                \* argument of the function under call
    ret,                \* what the call returned, or that it raised
    stdout,             \* what print() wrote, one entry per call
    input_data,         \* the decoded input document (line 209)
    v,                  \* the variables section (line 211)
    items,              \* the sorted item list (line 214)
    resource_full,      \* the combined document (lines 217-222)
    serial_num,         \* global counter (lines 14, 202)
    files,              \* the output directory: file name -> content
    dir_exists,         \* whether <working_dir>/generated exists
    pos,                \* index in items of the next item to process
    name,               \* the resource whose group is being processed
    resource_sections,  \* accumulator of gen_resource_section (line 187)
    run,                \* 1 for the first invocation, 2 for the second
    first_run_files,    \* the output directory as the first run left it
    processed           \* the items processed so far, in order

vars == <<pc, arg, ret, stdout, input_data, v, items, resource_full,
          serial_num, files, dir_exists, pos, name, resource_sections,
          run, first_run_files, processed>>

(***************************************************************************)
(* Bounds of the model.                                                    *)
(***************************************************************************)
MaxParts == 4

MaxResponses == 2

MaxItems == 3

(***************************************************************************)
(* Python values.  A call either returns a value or raises.                *)
(***************************************************************************)
Return(x) == [raised |-> FALSE, value |-> x]

Raise == [raised |-> TRUE, value |-> ""]

None == [none |-> TRUE]

(***************************************************************************)
(* Python str operations.                                                  *)
(***************************************************************************)
CharAt(s, i) == SubSeq(s, i, i)

\* s[i:i+len(t)] == t
MatchAt(s, t, i) ==
    /\ i + Len(t) - 1 <= Len(s)
    /\ SubSeq(s, i, i + Len(t) - 1) = t

\* t in s
Contains(s, t) == \E i \in 1..(Len(s) + 1) : MatchAt(s, t, i)

startswith(s, t) == MatchAt(s, t, 1)

endswith(s, t) ==
    /\ Len(t) <= Len(s)
    /\ SubSeq(s, Len(s) - Len(t) + 1, Len(s)) = t

\* s.count(c) for a one-character c
Count(s, c) == Cardinality({i \in 1..Len(s) : CharAt(s, i) = c})

\* s.replace(old, new), old non-empty: leftmost matches, never overlapping,
\* and the replacement text is not scanned again.
RECURSIVE ReplaceFrom(_, _, _, _)
ReplaceFrom(s, old, new, i) ==
    IF i > Len(s) THEN ""
    ELSE IF MatchAt(s, old, i)
         THEN new \o ReplaceFrom(s, old, new, i + Len(old))
         ELSE CharAt(s, i) \o ReplaceFrom(s, old, new, i + 1)

Replace(s, old, new) == ReplaceFrom(s, old, new, 1)

\* s[1:-1]
StripEnds(s) == IF Len(s) <= 2 THEN "" ELSE SubSeq(s, 2, Len(s) - 1)

(***************************************************************************)
(* s.encode('latin1').decode('unicode_escape') (line 20).  Every character *)
(* of the model is below U+0100, so the encoding never raises and the      *)
(* bytes are the characters.  The decoder turns a backslash and the        *)
(* character after it into the character it names, drops a backslash       *)
(* followed by a line feed, keeps a backslash before a character that      *)
(* names no escape, and raises on a backslash that ends the string.  The   *)
(* model's texts hold no digit and no a, b, f, v, x, u, U or N right after *)
(* a backslash, the escapes not modelled here.                             *)
(***************************************************************************)
EscapeValue(e) ==
    CASE e = "\\" -> "\\"
      [] e = "\"" -> "\""
      [] e = "'"  -> "'"
      [] e = "n"  -> "\n"
      [] e = "r"  -> "\r"
      [] e = "t"  -> "\t"
      [] e = "\n" -> ""
      [] OTHER    -> "\\" \o e

RECURSIVE unicode_escape_from(_, _)
unicode_escape_from(s, i) ==
    IF i > Len(s) THEN Return("")
    ELSE IF CharAt(s, i) # "\\"
         THEN LET rest == unicode_escape_from(s, i + 1)
              IN  IF rest.raised THEN Raise
                  ELSE Return(CharAt(s, i) \o rest.value)
         ELSE IF i = Len(s) THEN Raise
              ELSE LET rest == unicode_escape_from(s, i + 2)
                   IN  IF rest.raised THEN Raise
                       ELSE Return(EscapeValue(CharAt(s, i + 1)) \o rest.value)

unicode_escape(s) == unicode_escape_from(s, 1)

(***************************************************************************)
(* clean (lines 18-24).                                                    *)
(***************************************************************************)
\* The variant that strips when the text starts or ends with a quote.
strip_quotes_or(s) ==
    IF startswith(s, "\"") \/ endswith(s, "\"") THEN StripEnds(s) ELSE s

\* Lines 22-24.
strip_quotes(s) ==
    IF startswith(s, "\"") /\ endswith(s, "\"") THEN StripEnds(s) ELSE s

\* Lines 21-24, on the decoded text d, unless the decoding raised.
clean_decoded(d) ==
    IF d.raised THEN Raise
    ELSE Return(strip_quotes(
             Replace(Replace(Replace(d.value, "{{", "$"), "}}", ""), "\r\n", "")))

clean(s) == clean_decoded(unicode_escape(s))

(***************************************************************************)
(* re.sub(r"\s+", " ", url) (line 37): every maximal run of whitespace     *)
(* becomes one space.  Of the characters \s matches, the model's texts     *)
(* hold the space, the tab, the line feed, the carriage return and the     *)
(* form feed.                                                              *)
(***************************************************************************)
IsSpace(c) == c \in {" ", "\t", "\n", "\r", "\f"}

RECURSIVE SkipSpace(_, _)
SkipSpace(s, i) ==
    IF i <= Len(s) /\ IsSpace(CharAt(s, i)) THEN SkipSpace(s, i + 1) ELSE i

RECURSIVE CollapseSpaceFrom(_, _)
CollapseSpaceFrom(s, i) ==
    IF i > Len(s) THEN ""
    ELSE IF IsSpace(CharAt(s, i))
         THEN " " \o CollapseSpaceFrom(s, SkipSpace(s, i))
         ELSE CharAt(s, i) \o CollapseSpaceFrom(s, i + 1)

CollapseSpace(s) == CollapseSpaceFrom(s, 1)

(***************************************************************************)
(* encode_full_url (lines 35-42).                                          *)
(***************************************************************************)
\* The variant with the percent sign encoded last.
encode_full_url_percent_last(url) ==
    Replace(Replace(Replace(Replace(Replace(Replace(Replace(Replace(
        Replace(Replace(CollapseSpace(url), "{{", "$"), "}}", ""),
        "'", "%27"), "{", "%7B"), "}", "%7D"),
        "\"", "%22"), " ", "%20"), "[", "%5B"), "]", "%5D"), "%", "%25")

encode_full_url(url) ==
    Replace(Replace(Replace(Replace(Replace(Replace(Replace(Replace(
        Replace(Replace(CollapseSpace(url), "{{", "$"), "}}", ""),
        "%", "%25"), "'", "%27"), "{", "%7B"), "}", "%7D"),
        "\"", "%22"), " ", "%20"), "[", "%5B"), "]", "%5D")

(***************************************************************************)
(* escape_markup (lines 31-32): a backslash before every brace and bracket. *)
(***************************************************************************)
RECURSIVE EscapeMarkupFrom(_, _)
EscapeMarkupFrom(value, i) ==
    IF i > Len(value) THEN ""
    ELSE (IF CharAt(value, i) \in {"{", "}", "[", "]"} THEN "\\" ELSE "")
             \o CharAt(value, i) \o EscapeMarkupFrom(value, i + 1)

escape_markup(value) == EscapeMarkupFrom(value, 1)

(***************************************************************************)
(* JSON values, as json.loads builds them: a literal (null, true, false),  *)
(* an integer (its digits), a string, a list, or a dict (its keys in       *)
(* insertion order).                                                       *)
(***************************************************************************)
JLit(s) == [t |-> "lit", s |-> s]

JNull == JLit("null")

JNum(s) == [t |-> "num", s |-> s]

JStr(s) == [t |-> "str", s |-> s]

JArr(e) == [t |-> "arr", e |-> e]

JObj(m) == [t |-> "obj", m |-> m]

\* d[k] = val on a dict: a key already there keeps its place.
PutMember(m, k, val) ==
    IF \E i \in 1..Len(m) : m[i].k = k
    THEN [i \in 1..Len(m) |-> IF m[i].k = k THEN [k |-> k, val |-> val] ELSE m[i]]
    ELSE Append(m, [k |-> k, val |-> val])

\* k in d
HasKey(obj, k) == \E i \in 1..Len(obj.m) : obj.m[i].k = k

\* d[k], for a key of d
GetKey(obj, k) == obj.m[CHOOSE i \in 1..Len(obj.m) : obj.m[i].k = k].val

(***************************************************************************)
(* json.loads (lines 47, 126) on a str: the decoder of the standard        *)
(* library.  A parse gives [ok, val, next]: whether a value was read, the  *)
(* value, and the index after it.  The model's texts hold no -, ., e or E  *)
(* inside a number and no \b, \f, \u escape, which are not modelled.       *)
(***************************************************************************)
Digits == {"0", "1", "2", "3", "4", "5", "6", "7", "8", "9"}

NoParse == [ok |-> FALSE, val |-> JNull, next |-> 0]

Parsed(val, next) == [ok |-> TRUE, val |-> val, next |-> next]

IsJsonSpace(c) == c \in {" ", "\t", "\n", "\r"}

RECURSIVE SkipJsonSpace(_, _)
SkipJsonSpace(s, i) ==
    IF i <= Len(s) /\ IsJsonSpace(CharAt(s, i)) THEN SkipJsonSpace(s, i + 1) ELSE i

RECURSIVE SkipDigits(_, _)
SkipDigits(s, i) ==
    IF i <= Len(s) /\ CharAt(s, i) \in Digits THEN SkipDigits(s, i + 1) ELSE i

\* The text of a string whose opening quote is before index i (strict mode:
\* a control character inside a string is an error).
RECURSIVE ScanString(_, _, _)
ScanString(s, i, acc) ==
    IF i > Len(s) THEN NoParse
    ELSE LET c == CharAt(s, i)
         IN  CASE c = "\"" -> Parsed(JStr(acc), i + 1)
               [] c \in {"\n", "\r", "\t", "\f"} -> NoParse
               [] c = "\\" ->
                    IF i = Len(s) THEN NoParse
                    ELSE LET e == CharAt(s, i + 1)
                         IN  CASE e = "\"" -> ScanString(s, i + 2, acc \o "\"")
                               [] e = "\\" -> ScanString(s, i + 2, acc \o "\\")
                               [] e = "/"  -> ScanString(s, i + 2, acc \o "/")
                               [] e = "n"  -> ScanString(s, i + 2, acc \o "\n")
                               [] e = "r"  -> ScanString(s, i + 2, acc \o "\r")
                               [] e = "t"  -> ScanString(s, i + 2, acc \o "\t")
                               [] OTHER    -> NoParse
               [] OTHER -> ScanString(s, i + 1, acc \o c)

RECURSIVE ParseValue(_, _)
RECURSIVE ParseElements(_, _, _)
RECURSIVE ParseMembers(_, _, _)
RECURSIVE ElementsAfterItem(_, _, _)
RECURSIVE ElementsAt(_, _, _)
RECURSIVE MembersAfterKey(_, _, _)
RECURSIVE MembersAfterColon(_, _, _, _)
RECURSIVE MembersAfterItem(_, _, _, _)
RECURSIVE MembersAt(_, _, _)

\* The value that starts at index i.
ParseValue(s, i) ==
    IF i > Len(s) THEN NoParse
    ELSE LET c == CharAt(s, i)
         IN  CASE c = "\"" -> ScanString(s, i + 1, "")
               [] c = "{" ->
                    LET j == SkipJsonSpace(s, i + 1)
                    IN  IF j <= Len(s) /\ CharAt(s, j) = "}"
                        THEN Parsed(JObj(<<>>), j + 1)
                        ELSE ParseMembers(s, j, <<>>)
               [] c = "[" ->
                    LET j == SkipJsonSpace(s, i + 1)
                    IN  IF j <= Len(s) /\ CharAt(s, j) = "]"
                        THEN Parsed(JArr(<<>>), j + 1)
                        ELSE ParseElements(s, j, <<>>)
               [] c = "0" -> Parsed(JNum("0"), i + 1)
               [] c \in Digits \ {"0"} ->
                    LET j == SkipDigits(s, i)
                    IN  Parsed(JNum(SubSeq(s, i, j - 1)), j)
               [] MatchAt(s, "null", i)  -> Parsed(JLit("null"), i + 4)
               [] MatchAt(s, "true", i)  -> Parsed(JLit("true"), i + 4)
               [] MatchAt(s, "false", i) -> Parsed(JLit("false"), i + 5)
               [] OTHER -> NoParse

\* The elements of a list from index i on, after the elements e.
ParseElements(s, i, e) == ElementsAfterItem(s, e, ParseValue(s, i))

\* ... once the element item has been parsed.
ElementsAfterItem(s, e, item) ==
    IF ~item.ok THEN NoParse
    ELSE ElementsAt(s, Append(e, item.val), SkipJsonSpace(s, item.next))

\* ... at the index j after an element and the whitespace behind it.
ElementsAt(s, e, j) ==
    IF j > Len(s) THEN NoParse
    ELSE IF CharAt(s, j) = "]" THEN Parsed(JArr(e), j + 1)
    ELSE IF CharAt(s, j) = "," THEN ParseElements(s, SkipJsonSpace(s, j + 1), e)
    ELSE NoParse

\* The members of a dict from index i on, after the members m.
ParseMembers(s, i, m) ==
    IF i > Len(s) \/ CharAt(s, i) # "\"" THEN NoParse
    ELSE MembersAfterKey(s, m, ScanString(s, i + 1, ""))

\* ... once the key has been scanned.
MembersAfterKey(s, m, key) ==
    IF ~key.ok THEN NoParse
    ELSE MembersAfterColon(s, m, key.val.s, SkipJsonSpace(s, key.next))

\* ... at the index of the colon after the key k.
MembersAfterColon(s, m, k, colon) ==
    IF colon > Len(s) \/ CharAt(s, colon) # ":" THEN NoParse
    ELSE MembersAfterItem(s, m, k, ParseValue(s, SkipJsonSpace(s, colon + 1)))

\* ... once the value item of the key k has been parsed.
MembersAfterItem(s, m, k, item) ==
    IF ~item.ok THEN NoParse
    ELSE MembersAt(s, PutMember(m, k, item.val), SkipJsonSpace(s, item.next))

\* ... at the index j after a member and the whitespace behind it.
MembersAt(s, m, j) ==
    IF j > Len(s) THEN NoParse
    ELSE IF CharAt(s, j) = "}" THEN Parsed(JObj(m), j + 1)
    ELSE IF CharAt(s, j) = "," THEN ParseMembers(s, SkipJsonSpace(s, j + 1), m)
    ELSE NoParse

\* A parse r of s is the parse of the whole text when only whitespace
\* follows the value.
WholeText(s, r) ==
    IF r.ok /\ SkipJsonSpace(s, r.next) > Len(s) THEN r ELSE NoParse

\* json.loads(s): one value, whitespace around it, nothing after it.
json_loads(s) == WholeText(s, ParseValue(s, SkipJsonSpace(s, 1)))

(***************************************************************************)
(* json.dumps (lines 47, 125, 126).  level < 0 is the compact form of      *)
(* json.dumps(x) (separators ", " and ": "); level >= 0 is the form of     *)
(* json.dumps(x, indent=2) at that nesting level.                          *)
(***************************************************************************)
EscapeChar(c) ==
    CASE c = "\"" -> "\\\""
      [] c = "\\" -> "\\\\"
      [] c = "\n" -> "\\n"
      [] c = "\r" -> "\\r"
      [] c = "\t" -> "\\t"
      [] c = "\f" -> "\\f"
      [] OTHER    -> c

RECURSIVE EscapeFrom(_, _)
EscapeFrom(s, i) ==
    IF i > Len(s) THEN "" ELSE EscapeChar(CharAt(s, i)) \o EscapeFrom(s, i + 1)

dumps_str(s) == "\"" \o EscapeFrom(s, 1) \o "\""

RECURSIVE Spaces(_)
Spaces(n) == IF n <= 0 THEN "" ELSE " " \o Spaces(n - 1)

\* The separator between two entries, and the text before the first and
\* after the last, at a nesting level.
ItemSep(level) == IF level < 0 THEN ", " ELSE ",\n" \o Spaces(2 * (level + 1))

Open(level) == IF level < 0 THEN "" ELSE "\n" \o Spaces(2 * (level + 1))

Close(level) == IF level < 0 THEN "" ELSE "\n" \o Spaces(2 * level)

Deeper(level) == IF level < 0 THEN level ELSE level + 1

RECURSIVE dumps(_, _)
RECURSIVE DumpElements(_, _, _)
RECURSIVE DumpMembers(_, _, _)

dumps(val, level) ==
    CASE val.t \in {"lit", "num"} -> val.s
      [] val.t = "str" -> dumps_str(val.s)
      [] val.t = "arr" ->
            IF Len(val.e) = 0 THEN "[]"
            ELSE "[" \o Open(level) \o DumpElements(val.e, 1, level) \o Close(level) \o "]"
      [] val.t = "obj" ->
            IF Len(val.m) = 0 THEN "{}"
            ELSE "{" \o Open(level) \o DumpMembers(val.m, 1, level) \o Close(level) \o "}"

DumpElements(e, i, level) ==
    dumps(e[i], Deeper(level))
        \o (IF i = Len(e) THEN "" ELSE ItemSep(level) \o DumpElements(e, i + 1, level))

DumpMembers(m, i, level) ==
    dumps_str(m[i].k) \o ": " \o dumps(m[i].val, Deeper(level))
        \o (IF i = Len(m) THEN "" ELSE ItemSep(level) \o DumpMembers(m, i + 1, level))

\* json.dumps(x)
json_dumps(val) == dumps(val, -1)

\* json.dumps(x, indent=2)
json_dumps_indent(val) == dumps(val, 0)

(***************************************************************************)
(* format_raw_data (lines 45-49), on a str.                                *)
(***************************************************************************)
\* The pair returned for the text data whose parse is r (lines 47, 49).
format_parsed(data, r) ==
    IF r.ok THEN [language |-> "json", data |-> json_dumps_indent(r.val)]
    ELSE [language |-> "xml", data |-> data]

format_raw_data(data) == format_parsed(data, json_loads(data))

(***************************************************************************)
(* The three backquotes that open and close a fenced code block.  A TLA+   *)
(* string cannot hold a backquote; the model writes the fence as three     *)
(* tildes, a character no other text of the model holds.                   *)
(***************************************************************************)
Fence == "~~~"

(***************************************************************************)
(* What print() writes: a text, or the repr of a dict.                     *)
(***************************************************************************)
Printed(text) == [text |-> text]

PrintedDict(d) == [repr |-> d]

(***************************************************************************)
(* Items.  A dict decoded from the input document is a record whose fields *)
(* are the keys that are present; a request body is a JSON value, since    *)
(* the code probes its shape; a response body is null or a string.         *)
(* json.loads(json.dumps(item)) (lines 64, 148) copies such a value and    *)
(* changes nothing in it.                                                  *)
(***************************************************************************)

\* "raw" in body (line 123) for a body that is not None: a key of a dict,
\* an element of a list, a substring of a str; any other value raises.
RawInRaises(body) == body.t \in {"num", "lit"}

RawIn(body) ==
    CASE body.t = "obj" -> HasKey(body, "raw")
      [] body.t = "arr" -> \E i \in 1..Len(body.e) : body.e[i] = JStr("raw")
      [] body.t = "str" -> Contains(body.s, "raw")
      [] OTHER -> FALSE

\* str(x) of a JSON value inside an f-string, for a str; the compact JSON
\* text stands for the repr of any other value.
str(val) == IF val.t = "str" THEN val.s ELSE json_dumps(val)

\* The payload of a request whose method is not GET (lines 116-136):
\* [raised, language, payload].
Payload(language, payload) ==
    [raised |-> FALSE, language |-> language, payload |-> payload]

PayloadRaises == [raised |-> TRUE, language |-> "", payload |-> ""]

\* language, data = format_raw_data(x); payload = data (lines 131-132)
formatted_payload(f) == Payload(f.language, f.data)

\* Lines 127-134 for the cleaned text x of the raw body: the except block
\* when clean raised, {} for an empty text, else the formatted text.
cleaned_payload(raw, x) ==
    IF x.raised THEN Payload("json", str(raw))
    ELSE IF x.value = "" THEN Payload("json", "{}")
    ELSE formatted_payload(format_raw_data(x.value))

\* Lines 124-134 for the value raw of body["raw"].
raw_payload(raw) ==
    cleaned_payload(raw, clean(json_dumps(json_loads(json_dumps(raw)).val)))

request_payload(request) ==
    IF "body" \notin DOMAIN request \/ request.body = JNull
    THEN Payload("json", "{}")
    ELSE LET body == request.body
         IN  IF RawInRaises(body) THEN PayloadRaises
             ELSE IF ~RawIn(body) THEN Payload("json", "{}")
             \* body["raw"] raises on a list or a str, in the try block and
             \* again in the except block that reads it (lines 125, 134)
             ELSE IF body.t # "obj" THEN PayloadRaises
             ELSE raw_payload(GetKey(body, "raw"))

\* The rows of the headers table (lines 81-83).
RECURSIVE HeaderRows(_, _)
HeaderRows(header, i) ==
    IF i > Len(header) THEN ""
    ELSE LET h == header[i]
             description == IF "description" \in DOMAIN h THEN h.description ELSE " "
         IN  "| " \o h.key \o " | " \o escape_markup(h.value) \o " | "
                 \o description \o " |\n" \o HeaderRows(header, i + 1)

\* The rows of the path parameters (lines 96-99).
RECURSIVE PathRows(_, _)
PathRows(path, i) ==
    IF i > Len(path) THEN ""
    ELSE (IF Contains(path[i], "{{")
          THEN "| Path Parameter | "
                   \o Replace(Replace(path[i], "{{", "$"), "}}", "") \o " | | |\n"
          ELSE "") \o PathRows(path, i + 1)

\* The rows of the query string parameters (lines 103-106).
RECURSIVE QueryRows(_, _)
QueryRows(query, i) ==
    IF i > Len(query) THEN ""
    ELSE LET q == query[i]
             description == IF "description" \in DOMAIN q THEN q.description ELSE " "
         IN  "| Query String Parameter | " \o q.key \o " | " \o escape_markup(q.value)
                 \o " | " \o description \o " |\n" \o QueryRows(query, i + 1)

(***************************************************************************)
(* gen_request_section (lines 63-143): the text returned and what was      *)
(* printed, or an exception.  A request without a header list raises       *)
(* (line 81), and so does a body whose shape the payload code cannot read. *)
(***************************************************************************)
path_rows(url) == IF "path" \in DOMAIN url THEN PathRows(url.path, 1) ELSE ""

query_rows(url) == IF "query" \in DOMAIN url THEN QueryRows(url.query, 1) ELSE ""

\* add_param_section after lines 87-106: a path parameter with a
\* placeholder (the only ones that give a row) or any query parameter.
add_param_section(url) ==
    \/ path_rows(url) # ""
    \/ "query" \in DOMAIN url /\ Len(url.query) > 0

\* param_section after lines 88-106.
param_section(url) ==
    "#### Request Parameters\n\n"
        \o "| Parameter Type | Key | Value | Description |\n"
        \o "| -------------- | --- | ----- | ----------- |\n"
        \o path_rows(url) \o query_rows(url)

\* What lines 108-111 print.
printed_parameters(url) ==
    <<Printed(param_section(url))>>
        \o (IF add_param_section(url) THEN <<Printed("ADD PARAMETERS SECTION")>> ELSE <<>>)

\* request_section before the payload (lines 66-112).
request_head(item) ==
    LET request == item.request
    IN  "## **" \o request.method \o "** " \o item.name \o "\n\n"
            \o (IF "description" \in DOMAIN request
                THEN request.description \o "\n\n" ELSE "")
            \o "### Request\n\n" \o "#### Request URL\n\n"
            \o Fence \o "\n" \o encode_full_url(request.url.raw) \o "\n" \o Fence \o "\n\n"
            \o "#### Request Headers\n\n"
            \o "| Key | Value | Description |\n"
            \o "| --- | ----- | ----------- |\n"
            \o HeaderRows(request.header, 1) \o "\n"
            \o (IF add_param_section(request.url)
                THEN param_section(request.url) \o "\n" ELSE "")

\* Lines 115-139 after the payload pl has been computed.
with_payload(head, out, pl) ==
    IF pl.raised THEN Raise
    ELSE Return([text |-> head \o "#### Request Payload\n\n"
                              \o Fence \o pl.language \o "\n"
                              \o pl.payload \o "\n" \o Fence \o "\n\n",
                 out |-> out])

\* Lines 114-143 for the section head built and the lines out printed so far.
payload_section(request, head, out) ==
    IF request.method = "GET"
    THEN Return([text |-> head, out |-> Append(out, Printed("No payload for GET"))])
    ELSE with_payload(head, out, request_payload(request))

gen_request_section(item) ==
    IF "header" \notin DOMAIN item.request THEN Raise
    ELSE payload_section(item.request, request_head(item),
                         printed_parameters(item.request.url))

(***************************************************************************)
(* gen_response_section (lines 147-179).  An item without a response list  *)
(* raises (line 148).                                                      *)
(***************************************************************************)
\* language and body after lines 171-175.
response_body(first) ==
    IF "body" \in DOMAIN first
    THEN format_raw_data(IF first.body = JNull THEN "{}" ELSE first.body.s)
    ELSE [language |-> "json", data |-> " "]

\* The response body as a code snippet (line 178).
body_block(formatted) ==
    Fence \o formatted.language \o "\n" \o formatted.data \o "\n" \o Fence \o "\n\n"

response_section_of(response, first) ==
    IF Len(response) = 0 THEN [text |-> "### Response\n\n", out |-> <<>>]
    ELSE LET code == IF "code" \in DOMAIN first THEN ToString(first.code) ELSE "200"
             status == IF "status" \in DOMAIN first THEN first.status ELSE "OK"
         IN  [text |-> "### Response\n\n"
                           \o "#### Status: " \o code \o " " \o status \o "\n\n"
                           \o body_block(response_body(first)),
              out |-> (IF "code" \in DOMAIN first THEN <<>> ELSE <<PrintedDict(first)>>)
                      \o (IF "status" \in DOMAIN first THEN <<>> ELSE <<PrintedDict(first)>>)
                      \o (IF "body" \in DOMAIN first THEN <<>>
                          ELSE <<Printed("Warning - response body is missing")>>)]

\* The variant that renders the last response entry.
gen_response_section_last(item) ==
    IF "response" \notin DOMAIN item THEN Raise
    ELSE Return(response_section_of(item.response,
                    IF Len(item.response) = 0 THEN <<>>
                    ELSE item.response[Len(item.response)]))

gen_response_section(item) ==
    IF "response" \notin DOMAIN item THEN Raise
    ELSE Return(response_section_of(item.response,
                    IF Len(item.response) = 0 THEN <<>> ELSE item.response[1]))

(***************************************************************************)
(* Python's comparison of two str: by code point, the shorter text first   *)
(* when it is a prefix of the other.  Ord is ord(c) for the printable      *)
(* ASCII characters (the backquote, 96, is in no text of the model).       *)
(***************************************************************************)
AsciiFromSpace ==
    " !\"#$%&'()*+,-./0123456789:;<=>?@ABCDEFGHIJKLMNOPQRSTUVWXYZ[\\]^_"

AsciiFromLowerA == "abcdefghijklmnopqrstuvwxyz{|}~"

Ord(c) ==
    IF \E i \in 1..Len(AsciiFromSpace) : CharAt(AsciiFromSpace, i) = c
    THEN 31 + (CHOOSE i \in 1..Len(AsciiFromSpace) : CharAt(AsciiFromSpace, i) = c)
    ELSE 96 + (CHOOSE i \in 1..Len(AsciiFromLowerA) : CharAt(AsciiFromLowerA, i) = c)

RECURSIVE StrLessFrom(_, _, _)
StrLessFrom(a, b, i) ==
    IF i > Len(b) THEN FALSE
    ELSE IF i > Len(a) THEN TRUE
    ELSE IF CharAt(a, i) = CharAt(b, i) THEN StrLessFrom(a, b, i + 1)
    ELSE Ord(CharAt(a, i)) < Ord(CharAt(b, i))

\* a < b
StrLess(a, b) == StrLessFrom(a, b, 1)

(***************************************************************************)
(* gen_variables_section (lines 53-59).  A variable without a key or       *)
(* without a value raises (lines 57, 58).                                  *)
(***************************************************************************)
VariableLess(a, b) == StrLess(a.key, b.key)

\* sorted(list_of_variables, key=itemgetter('key')) (line 57): the stable sort
\* of the standard library.  An element goes after every element with a
\* smaller key and after the earlier elements with an equal key.
sorted_variables(seq) ==
    LET n == Len(seq)
        Rank(i) == 1 + Cardinality({j \in 1..n :
                         \/ VariableLess(seq[j], seq[i])
                         \/ ~VariableLess(seq[i], seq[j]) /\ j < i})
    IN  [p \in 1..n |-> seq[CHOOSE i \in 1..n : Rank(i) = p]]

RECURSIVE VariableRows(_, _)
VariableRows(variables, i) ==
    IF i > Len(variables) THEN ""
    ELSE "| " \o variables[i].key \o " | | " \o variables[i].value \o " |\n"
             \o VariableRows(variables, i + 1)

gen_variables_section(list_of_variables) ==
    IF \E i \in 1..Len(list_of_variables) :
           \/ "key" \notin DOMAIN list_of_variables[i]
           \/ "value" \notin DOMAIN list_of_variables[i]
    THEN Raise
    ELSE Return("## Variables Used in this Collection\n\n"
                    \o "| Name | Description | Example |\n"
                    \o "| ---- | ----------- | ------- |\n"
                    \o VariableRows(sorted_variables(list_of_variables), 1))

(***************************************************************************)
(* The sort key of the items (line 214): the tuple (name, method).         *)
(***************************************************************************)
\* The variant that sorts by name alone.
KeyLess_name_only(x, y) == StrLess(x.name, y.name)

KeyLess(x, y) ==
    \/ StrLess(x.name, y.name)
    \/ x.name = y.name /\ StrLess(x.request.method, y.request.method)

\* sorted(input_data["item"], key=...) (line 214), stable as above.
sorted_items(seq) ==
    LET n == Len(seq)
        Rank(i) == 1 + Cardinality({j \in 1..n :
                         \/ KeyLess(seq[j], seq[i])
                         \/ ~KeyLess(seq[i], seq[j]) /\ j < i})
    IN  [p \in 1..n |-> seq[CHOOSE i \in 1..n : Rank(i) = p]]

(***************************************************************************)
(* The file name of an item's artifact (lines 195-198).                    *)
(***************************************************************************)
safe_name(resource) ==
    Replace(Replace(Replace(Replace(Replace(Replace(Replace(Replace(Replace(
        resource, "/", ""), "\\", "-"), ":", "-"), "*", "-"),
        "?", "-"), "\"", "-"), "<", "-"), ">", "-"), "|", "-")

file_name(resource, item) == safe_name(resource) \o "-" \o item.request.method \o ".md"

(***************************************************************************)
(* open(output_path, 'w') and write (lines 200-201): the file holds what   *)
(* was written, whatever it held before.                                   *)
(***************************************************************************)
\* The variant that opens the file for appending.
WriteFile_append(fs, path, content) ==
    (path :> ((IF path \in DOMAIN fs THEN fs[path] ELSE "") \o content)) @@ fs

WriteFile(fs, path, content) == (path :> content) @@ fs

(***************************************************************************)
(* The state every specification starts from, apart from its own inputs,   *)
(* and the variables of the script run, which a function call leaves alone. *)
(***************************************************************************)
Idle ==
    /\ ret = None
    /\ stdout = <<>>
    /\ v = ""
    /\ items = <<>>
    /\ resource_full = ""
    /\ serial_num = 1
    /\ files = <<>>
    /\ dir_exists = FALSE
    /\ pos = 1
    /\ name = None
    /\ resource_sections = ""
    /\ run = 1
    /\ first_run_files = <<>>
    /\ processed = <<>>

script == <<input_data, v, items, resource_full, serial_num, files, dir_exists,
            pos, name, resource_sections, run, first_run_files, processed>>

\* The texts made of at most n parts drawn from the set parts.
RECURSIVE Texts(_, _)
Texts(parts, n) ==
    IF n = 0 THEN {""}
    ELSE LET shorter == Texts(parts, n - 1)
         IN  shorter \cup {t \o p : t \in shorter, p \in parts}

(***************************************************************************)
(* SpecClean: clean(s) on every text of at most MaxParts parts.            *)
(***************************************************************************)
CleanParts == {"{", "}", "{{k}}", "k", "\"", "\\", "\r\n", "\r", "\n", "n"}

InitClean ==
    /\ pc = "call"
    /\ arg \in Texts(CleanParts, MaxParts)
    /\ input_data = None
    /\ Idle

CallClean ==
    /\ pc = "call"
    /\ ret' = clean(arg)
    /\ pc' = "returned"
    /\ UNCHANGED <<arg, stdout, script>>

NextClean == CallClean

SpecClean == InitClean /\ [][NextClean]_vars

(***************************************************************************)
(* Claims about clean, checked under SpecClean.                            *)
(***************************************************************************)
\* Position i of s is part of a carriage-return/newline pair.
InCrLf(s, i) ==
    \/ CharAt(s, i) = "\r" /\ i < Len(s) /\ CharAt(s, i + 1) = "\n"
    \/ CharAt(s, i) = "\n" /\ i > 1 /\ CharAt(s, i - 1) = "\r"

\* s without the characters of its carriage-return/newline pairs.
RECURSIVE WithoutCrLfFrom(_, _)
WithoutCrLfFrom(s, i) ==
    IF i > Len(s) THEN ""
    ELSE (IF InCrLf(s, i) THEN "" ELSE CharAt(s, i)) \o WithoutCrLfFrom(s, i + 1)

\* s holds no placeholder delimiter and no backslash.
Benign(s) ==
    /\ ~Contains(s, "{{")
    /\ ~Contains(s, "}}")
    /\ ~Contains(s, "\\")

\* t without its first and last character when it starts and ends with a
\* double quote (nothing is left of a text that is one quote), else t.
Unquoted(t) ==
    IF Len(t) >= 1 /\ CharAt(t, 1) = "\"" /\ CharAt(t, Len(t)) = "\""
    THEN (IF Len(t) >= 3 THEN SubSeq(t, 2, Len(t) - 1) ELSE "")
    ELSE t

\* C5: clean deletes a }} only when it closes a placeholder: on an input
\* without any {{ every } of the input is still in the output.
C5_CleanKeepsUnmatchedClosers ==
    (pc = "returned" /\ ~Contains(arg, "{{") /\ ~ret.raised)
        => Count(ret.value, "}") = Count(arg, "}")

\* C6: for every input that contains the placeholder {{k}} (and, here, no
\* backslash), the output of clean contains $k and neither {{ nor }}.
C6_CleanRewritesEveryPlaceholder ==
    (pc = "returned" /\ Contains(arg, "{{k}}") /\ ~Contains(arg, "\\"))
        => /\ ~ret.raised
           /\ Contains(ret.value, "$k")
           /\ ~Contains(ret.value, "{{")
           /\ ~Contains(ret.value, "}}")

UrlParts == {"%", "'", "{", "}", "\"", " ", "[", "]", "\t", "a"}

InitUrl ==
    /\ pc = "call"
    /\ arg \in Texts(UrlParts, MaxParts)
    /\ input_data = None
    /\ Idle

CallEncodeFullUrl ==
    /\ pc = "call"
    /\ ret' = Return(encode_full_url(arg))
    /\ pc' = "returned"
    /\ UNCHANGED <<arg, stdout, script>>

NextUrl == CallEncodeFullUrl

SpecUrl == InitUrl /\ [][NextUrl]_vars

(***************************************************************************)
(* Claims about encode_full_url, checked under SpecUrl.                    *)
(***************************************************************************)
\* The code of one character, the character itself when it has none.
PercentCode(c) ==
    CASE c = "%"  -> "%25"
      [] c = "'"  -> "%27"
      [] c = "{"  -> "%7B"
      [] c = "}"  -> "%7D"
      [] c = "\"" -> "%22"
      [] c = " "  -> "%20"
      [] c = "["  -> "%5B"
      [] c = "]"  -> "%5D"
      [] OTHER    -> c

\* Every character of s replaced by its code, all at once.
RECURSIVE EncodeEachFrom(_, _)
EncodeEachFrom(s, i) ==
    IF i > Len(s) THEN ""
    ELSE PercentCode(CharAt(s, i)) \o EncodeEachFrom(s, i + 1)

\* C8: the chained substitutions of encode_full_url equal one simultaneous
\* character-by-character encoding of the whitespace-collapsed,
\* placeholder-rewritten URL (so no % brought in by a substitution is
\* encoded again), and the result holds no raw whitespace, quote, brace or
\* bracket, hence no {{ and no }}.
C8_EncodeIsSimultaneous ==
    pc = "returned" =>
        /\ ret.value = EncodeEachFrom(
               Replace(Replace(CollapseSpace(arg), "{{", "$"), "}}", ""), 1)
        /\ \A i \in 1..Len(ret.value) :
               /\ ~IsSpace(CharAt(ret.value, i))
               /\ CharAt(ret.value, i) \notin {"'", "\"", "{", "}", "[", "]"}
        /\ Count(ret.value, "%") =
               Cardinality({i \in 1..Len(ret.value) - 2 :
                   SubSeq(ret.value, i, i + 2) \in
                       {"%25", "%27", "%7B", "%7D", "%22", "%20", "%5B", "%5D"}})

\* C8's case: a URL with a percent sign, a brace and a space has been encoded.
C8_Witness ==
    /\ pc = "returned"
    /\ Contains(arg, "%")
    /\ Contains(arg, "{")
    /\ Contains(arg, " ")
    /\ Contains(ret.value, "%25")
    /\ Contains(ret.value, "%7B")
    /\ Contains(ret.value, "%20")

(***************************************************************************)
(* Sample data of the item harnesses and of the script run.                *)
(***************************************************************************)
\* A dict without keys.
Absent == <<>>

\* The sequences of at most n elements of the set S.
RECURSIVE SeqsUpTo(_, _)
SeqsUpTo(S, n) ==
    IF n = 0 THEN {<<>>}
    ELSE LET shorter == SeqsUpTo(S, n - 1)
         IN  shorter \cup {Append(q, x) : q \in shorter, x \in S}

PingUrl == [raw |-> "{{base}}/ping"]

PingRequest == [method |-> "GET", url |-> PingUrl, header |-> <<>>]

(***************************************************************************)
(* SpecResponse: gen_response_section(item) on items whose response list   *)
(* has at most MaxResponses entries, each with or without a code, a status *)
(* and a body (null, or a text that is JSON or is not).                    *)
(***************************************************************************)
ResponseBodies ==
    {JNull, JStr(""), JStr("{}"), JStr("{\"k\": [1, {}]}"), JStr("<k/>")}

ResponseEntries ==
    {c @@ s @@ b :
        c \in {Absent, [code |-> 404]},
        s \in {Absent, [status |-> "Not Found"]},
        b \in {Absent} \cup {[body |-> x] : x \in ResponseBodies}}

InitResponse ==
    /\ pc = "call"
    /\ arg \in {[name |-> "Ping", request |-> PingRequest, response |-> r] :
                    r \in SeqsUpTo(ResponseEntries, MaxResponses)}
    /\ input_data = None
    /\ Idle

CallGenResponseSection ==
    /\ pc = "call"
    /\ ret' = gen_response_section(arg)
    /\ stdout' = IF ret'.raised THEN stdout ELSE stdout \o ret'.value.out
    /\ pc' = "returned"
    /\ UNCHANGED <<arg, script>>

NextResponse == CallGenResponseSection

SpecResponse == InitResponse /\ [][NextResponse]_vars

(***************************************************************************)
(* Claims about gen_response_section, checked under SpecResponse.          *)
(***************************************************************************)
Warning == Printed("Warning - response body is missing")

Warnings(out) == Cardinality({i \in 1..Len(out) : out[i] = Warning})

\* The body block the claim describes for a first response entry.
ExpectedBodyBlock(first) ==
    IF "body" \notin DOMAIN first THEN Fence \o "json\n" \o " " \o "\n" \o Fence \o "\n\n"
    ELSE IF first.body = JNull THEN Fence \o "json\n" \o "{}" \o "\n" \o Fence \o "\n\n"
    ELSE LET f == format_raw_data(first.body.s)
         IN  Fence \o f.language \o "\n" \o f.data \o "\n" \o Fence \o "\n\n"

\* C9: the response section depends only on the first response entry: the
\* header alone (and no warning) for an empty list; else the status line
\* with 200 and OK for absent fields and one body block (the formatted body,
\* {} for null, a space for a missing body field); the warning is printed
\* exactly when the list is non-empty and its first entry has no body
\* field; the call never raises.
C9_ResponseSection ==
    pc = "returned" =>
        /\ ~ret.raised
        /\ IF Len(arg.response) = 0
           THEN /\ ret.value.text = "### Response\n\n"
                /\ stdout = <<>>
           ELSE LET first == arg.response[1]
                    code == IF "code" \in DOMAIN first THEN "404" ELSE "200"
                    status == IF "status" \in DOMAIN first THEN "Not Found" ELSE "OK"
                IN  /\ ret.value.text =
                           "### Response\n\n" \o "#### Status: " \o code \o " "
                               \o status \o "\n\n" \o ExpectedBodyBlock(first)
                    /\ Warnings(stdout) = IF "body" \in DOMAIN first THEN 0 ELSE 1

\* C9's case: a list of two entries, the first without a body field and the
\* second with one, has been rendered with the warning.
C9_Witness ==
    /\ pc = "returned"
    /\ Len(arg.response) = 2
    /\ "body" \notin DOMAIN arg.response[1]
    /\ "body" \in DOMAIN arg.response[2]
    /\ "code" \in DOMAIN arg.response[2]
    /\ "code" \notin DOMAIN arg.response[1]
    /\ Warnings(stdout) = 1
    /\ Contains(ret.value.text, "#### Status: 200 ")

(***************************************************************************)
(* SpecRequest: gen_request_section(item) on items with each method, with  *)
(* and without a description, path, query and headers, and with every      *)
(* shape of body: absent, null, a dict with or without raw (raw a text, a  *)
(* number or a dict), a list, a str, a number, a boolean.                  *)
(***************************************************************************)
RawTexts ==
    {"", "{\"k\": 1}", "{\"k\": \"{{k}}\"}", "{\"k\": {\"k\": 1}}", "{{k}}",
     "k\\n", "\"k\"", "<k>\r\n</k>"}

RequestBodies ==
    {JNull, JObj(<<>>), JObj(<<[k |-> "mode", val |-> JStr("raw")]>>),
     JObj(<<[k |-> "mode", val |-> JStr("raw")], [k |-> "raw", val |-> JNum("1")]>>),
     JObj(<<[k |-> "raw", val |-> JObj(<<[k |-> "k", val |-> JStr("{{k}}")]>>)]>>),
     JArr(<<>>), JArr(<<JStr("raw")>>), JStr("raw"), JStr("k"), JNum("1"),
     JLit("true")}
        \cup {JObj(<<[k |-> "raw", val |-> JStr(x)]>>) : x \in RawTexts}

RequestUrls ==
    {[raw |-> "{{base}}/k"],
     [raw |-> "{{base}}/{{k}}?k=[1]", path |-> <<"k", "{{k}}">>,
      query |-> <<[key |-> "k", value |-> "[1]"]>>],
     [raw |-> "{{base}}/k k", path |-> <<"k k">>, query |-> <<>>]}

RequestHeaders ==
    {<<>>, <<[key |-> "Accept", value |-> "{{k}}"],
             [key |-> "k", value |-> "[1]", description |-> "d"]>>}

RequestItems ==
    {[name |-> "Ping",
      request |-> [method |-> m, url |-> u, header |-> h] @@ d @@ b,
      response |-> <<>>] :
        m \in {"GET", "POST", "get"},
        u \in RequestUrls,
        h \in RequestHeaders,
        d \in {Absent, [description |-> "d"]},
        b \in {Absent} \cup {[body |-> x] : x \in RequestBodies}}

InitRequest ==
    /\ pc = "call"
    /\ arg \in RequestItems
    /\ input_data = None
    /\ Idle

CallGenRequestSection ==
    /\ pc = "call"
    /\ ret' = gen_request_section(arg)
    /\ stdout' = IF ret'.raised THEN stdout ELSE stdout \o ret'.value.out
    /\ pc' = "returned"
    /\ UNCHANGED <<arg, script>>

NextRequest == CallGenRequestSection

SpecRequest == InitRequest /\ [][NextRequest]_vars

(***************************************************************************)
(* Claims about gen_request_section, checked under SpecRequest.            *)
(***************************************************************************)
\* The section ends with a payload block of that language and content.
EndsWithBlock(text, language, payload) ==
    endswith(text, "#### Request Payload\n\n" \o Fence \o language \o "\n"
                       \o payload \o "\n" \o Fence \o "\n\n")

\* The request has no body, a null body, or a dict without a raw key.
NoRawField(request) ==
    \/ "body" \notin DOMAIN request
    \/ request.body = JNull
    \/ request.body.t = "obj" /\ ~HasKey(request.body, "raw")

\* The raw-body pipeline is entered ("raw" in body) and one of its steps
\* raises: reading body["raw"], or clean.
PipelineFails(request) ==
    /\ "body" \in DOMAIN request
    /\ request.body # JNull
    /\ ~RawInRaises(request.body)
    /\ RawIn(request.body)
    /\ \/ request.body.t # "obj"
       \/ clean(json_dumps(json_loads(json_dumps(GetKey(request.body, "raw"))).val)).raised

\* C10: the request section has a payload block iff the method is not GET;
\* the block holds {} with the language json when the request has no body,
\* a null body or a body without raw; and when a step of the raw-body
\* pipeline fails the section is still returned, with a payload block that
\* holds the raw body text.
C10_PayloadBlock ==
    pc = "returned" =>
        LET request == arg.request
        IN  /\ ~ret.raised =>
                  (Contains(ret.value.text, "#### Request Payload\n\n")
                       <=> request.method # "GET")
            /\ (request.method # "GET" /\ NoRawField(request)) =>
                  /\ ~ret.raised
                  /\ EndsWithBlock(ret.value.text, "json", "{}")
            /\ (request.method # "GET" /\ PipelineFails(request)) =>
                  /\ ~ret.raised
                  /\ Contains(ret.value.text, "#### Request Payload\n\n")
                  /\ request.body.t = "obj" =>
                         EndsWithBlock(ret.value.text, "json",
                                       str(GetKey(request.body, "raw")))

(***************************************************************************)
(* Spec: the script run (lines 208-222), on an input document that is not  *)
(* parseable, lacks a root field, or holds a variable list and at most     *)
(* MaxItems items (every variable list with at most one item, one variable *)
(* list with every item list); then a second run on the same input, with   *)
(* the files of the first run still in place.                              *)
(***************************************************************************)
Unparseable == [unparseable |-> TRUE]

HostVariable == <<[key |-> "host", value |-> "api.example.com"]>>

VariableLists ==
    {<<>>,
     HostVariable,
     <<[key |-> "b", value |-> ""], [key |-> "B", value |-> "1"]>>,
     <<[key |-> "host"]>>}

Created == [code |-> 201, status |-> "Created", body |-> JStr("{\"k\": 1}")]

ItemSamples ==
    {[name |-> "A", request |-> PingRequest, response |-> <<>>],
     [name |-> "A", request |-> PingRequest @@ [description |-> "d"],
      response |-> <<Absent>>],
     [name |-> "A",
      request |-> [method |-> "POST", url |-> PingUrl, header |-> <<>>,
                   body |-> JObj(<<[k |-> "raw", val |-> JStr("{\"k\": \"{{k}}\"}")]>>)],
      response |-> <<Created>>],
     [name |-> "B", request |-> PingRequest, response |-> <<>>],
     [name |-> "a",
      request |-> [method |-> "PUT", url |-> PingUrl, header |-> <<>>],
      response |-> <<[body |-> JNull]>>],
     [name |-> "A/", request |-> PingRequest, response |-> <<Created>>],
     [name |-> "B",
      request |-> [method |-> "POST", url |-> PingUrl, header |-> <<>>,
                   body |-> JArr(<<JStr("raw")>>)],
      response |-> <<>>]}

Inputs ==
    {Unparseable, [item |-> <<>>], [variable |-> <<>>]}
        \cup {[variable |-> vs, item |-> its] :
                 vs \in VariableLists, its \in SeqsUpTo(ItemSamples, 1)}
        \cup {[variable |-> HostVariable, item |-> its] :
                 its \in SeqsUpTo(ItemSamples, MaxItems)}

\* The input is malformed: not parseable, or without a root field.
InputMalformed(d) ==
    \/ "unparseable" \in DOMAIN d
    \/ "variable" \notin DOMAIN d
    \/ "item" \notin DOMAIN d

Init ==
    /\ pc = "start"
    /\ arg = None
    /\ input_data \in Inputs
    /\ Idle

\* json.load (lines 208-209)
LoadInput ==
    /\ pc = "start"
    /\ pc' = IF "unparseable" \in DOMAIN input_data THEN "aborted" ELSE "variables"
    /\ UNCHANGED <<arg, ret, stdout, script>>

\* v = gen_variables_section(input_data["variable"]) (line 211)
GenVariablesSection ==
    /\ pc = "variables"
    /\ LET r == IF "variable" \in DOMAIN input_data
                THEN gen_variables_section(input_data.variable)
                ELSE Raise
       IN  /\ pc' = IF r.raised THEN "aborted" ELSE "sort"
           /\ v' = IF r.raised THEN v ELSE r.value
    /\ UNCHANGED <<arg, ret, stdout, input_data, items, resource_full, serial_num,
                   files, dir_exists, pos, name, resource_sections, run,
                   first_run_files, processed>>

\* items = sorted(...); resource_full = ... (lines 214-218)
SortItems ==
    /\ pc = "sort"
    /\ IF "item" \in DOMAIN input_data
       THEN /\ items' = sorted_items(input_data.item)
            /\ resource_full' = "# API Documentation\n\n" \o v \o "\n"
            /\ pc' = "loop"
       ELSE /\ pc' = "aborted"
            /\ UNCHANGED <<items, resource_full>>
    /\ UNCHANGED <<arg, ret, stdout, input_data, v, serial_num, files, dir_exists,
                   pos, name, resource_sections, run, first_run_files, processed>>

\* The next group of groupby (line 220), its print (line 221) and the
\* beginning of gen_resource_section (lines 187-189).
EnterGroup ==
    /\ pc = "loop"
    /\ pos <= Len(items)
    /\ name' = items[pos].name
    /\ stdout' = Append(stdout, Printed("Exporting: " \o items[pos].name))
    /\ dir_exists' = TRUE
    /\ resource_sections' = ""
    /\ pc' = "group"
    /\ UNCHANGED <<arg, ret, input_data, v, items, resource_full, serial_num, files,
                   pos, run, first_run_files, processed>>

\* Lines 191-203 once the two sections of the item have been generated, or
\* one of the two calls has raised.
WithSections(item, request_section, response_section) ==
    LET processing == Printed("\t Processing " \o item.request.method)
    IN  IF request_section.raised \/ response_section.raised
        THEN /\ pc' = "aborted"
             /\ stdout' = Append(stdout, processing)
             /\ UNCHANGED <<files, serial_num, resource_sections, pos, processed>>
        ELSE LET resource_section ==
                     request_section.value.text \o response_section.value.text \o "\n"
             IN  /\ files' = WriteFile(files, file_name(name, item), resource_section)
                 /\ serial_num' = serial_num + 1
                 /\ resource_sections' = resource_sections \o resource_section
                 /\ stdout' = Append(stdout, processing)
                                  \o request_section.value.out
                                  \o response_section.value.out
                 /\ pos' = pos + 1
                 /\ processed' = Append(processed, item)
                 /\ pc' = "group"

\* One item of the group (lines 190-203).
ProcessItem ==
    /\ pc = "group"
    /\ pos <= Len(items)
    /\ items[pos].name = name
    /\ WithSections(items[pos], gen_request_section(items[pos]),
                     gen_response_section(items[pos]))
    /\ UNCHANGED <<arg, ret, input_data, v, items, resource_full, dir_exists, name,
                   run, first_run_files>>

\* The end of the group: resource_full += gen_resource_section(...) (line 222).
LeaveGroup ==
    /\ pc = "group"
    /\ IF pos > Len(items) THEN TRUE ELSE items[pos].name # name
    /\ resource_full' = resource_full \o resource_sections
    /\ name' = None
    /\ pc' = "loop"
    /\ UNCHANGED <<arg, ret, stdout, input_data, v, items, serial_num, files,
                   dir_exists, pos, resource_sections, run, first_run_files, processed>>

\* The end of the script.
Finish ==
    /\ pc = "loop"
    /\ pos > Len(items)
    /\ pc' = "done"
    /\ UNCHANGED <<arg, ret, stdout, script>>

\* The script is started again on the same input; the output directory is
\* as the first run left it.
Rerun ==
    /\ pc \in {"done", "aborted"}
    /\ run = 1
    /\ run' = 2
    /\ first_run_files' = files
    /\ pc' = "start"
    /\ stdout' = <<>>
    /\ v' = ""
    /\ items' = <<>>
    /\ resource_full' = ""
    /\ serial_num' = 1
    /\ pos' = 1
    /\ name' = None
    /\ resource_sections' = ""
    /\ processed' = <<>>
    /\ UNCHANGED <<arg, ret, input_data, files, dir_exists>>

Next ==
    \/ LoadInput
    \/ GenVariablesSection
    \/ SortItems
    \/ EnterGroup
    \/ ProcessItem
    \/ LeaveGroup
    \/ Finish
    \/ Rerun

Spec == Init /\ [][Next]_vars

(***************************************************************************)
(* Claims about the script run, checked under Spec.                        *)
(***************************************************************************)
\* The fragment of an item: its request section, its response section and
\* one blank line.
Fragment(item) ==
    gen_request_section(item).value.text \o gen_response_section(item).value.text \o "\n"

\* C1: after a first run that completes, the output directory holds one
\* artifact per item: as many files as items, and each item's fragment is
\* the content of the file named after it.
C1_OneArtifactPerItem ==
    (pc = "done" /\ run = 1) =>
        /\ Cardinality(DOMAIN files) = Len(items)
        /\ \A i \in 1..Len(items) :
               /\ file_name(items[i].name, items[i]) \in DOMAIN files
               /\ files[file_name(items[i].name, items[i])] = Fragment(items[i])

\* C2: only a malformed input (not parseable, or without the root variable
\* or item field) ends the run before its last item is written: a run over
\* a well-formed root with items never aborts.
C2_OnlyMalformedInputAborts ==
    (pc = "aborted" /\ "item" \in DOMAIN input_data /\ Len(input_data.item) > 0)
        => InputMalformed(input_data)

\* C3: the second run on the same input adds no path to the output
\* directory, and when it has ended the directory is exactly as the first
\* run left it: the same paths, each with the same content.
C3_RerunIsIdempotent ==
    run = 2 =>
        /\ DOMAIN files \subseteq DOMAIN first_run_files
        /\ pc \in {"done", "aborted"} => files = first_run_files

\* C3's case: the second run has completed over an input of which two items
\* were written to the same path, and the directory is not empty.
C3_Witness ==
    /\ run = 2
    /\ pc = "done"
    /\ Len(items) >= 2
    /\ Cardinality(DOMAIN files) < Len(items)
    /\ Cardinality(DOMAIN files) >= 2

\* a comes before b in ordinal order: at the first index where they differ,
\* a has ended or holds the character of the smaller code point.
OrdinalBefore(a, b) ==
    \E i \in 1..(Len(b)) :
        /\ i - 1 <= Len(a)
        /\ SubSeq(a, 1, i - 1) = SubSeq(b, 1, i - 1)
        /\ \/ i > Len(a)
           \/ Ord(CharAt(a, i)) < Ord(CharAt(b, i))

\* The names of the groups visited so far, from the Exporting lines.
ExportedAt(i) == SubSeq(stdout[i].text, Len("Exporting: ") + 1, Len(stdout[i].text))

IsExport(i) ==
    /\ "text" \in DOMAIN stdout[i]
    /\ startswith(stdout[i].text, "Exporting: ")

\* How many times the item x occurs in the sequence q.
Occurrences(q, x) == Cardinality({i \in 1..Len(q) : q[i] = x})

\* C4: the items are processed in ascending (name, method) order under
\* ordinal comparison: the groups are visited in strictly ascending name
\* order (so no name forms two groups), inside one name the methods never
\* descend, a completed run has processed exactly the items of the input,
\* and names B, A, A with methods GET, POST, GET give A GET, A POST, B GET.
C4_ProcessedInKeyOrder ==
    (pc \in {"loop", "group", "done"}) =>
        /\ \A i \in 1..Len(processed) : \A j \in 1..Len(processed) :
               i < j =>
                   \/ OrdinalBefore(processed[i].name, processed[j].name)
                   \/ /\ processed[i].name = processed[j].name
                      /\ \/ processed[i].request.method = processed[j].request.method
                         \/ OrdinalBefore(processed[i].request.method,
                                          processed[j].request.method)
        /\ \A i \in 1..Len(stdout) : \A j \in 1..Len(stdout) :
               (i < j /\ IsExport(i) /\ IsExport(j)) =>
                   OrdinalBefore(ExportedAt(i), ExportedAt(j))
        /\ pc = "done" =>
               /\ Len(processed) = Len(input_data.item)
               /\ \A i \in 1..Len(processed) :
                      Occurrences(processed, processed[i])
                          = Occurrences(input_data.item, processed[i])
               /\ ( /\ Len(input_data.item) = 3
                    /\ [i \in 1..3 |-> input_data.item[i].name] = <<"B", "A", "A">>
                    /\ [i \in 1..3 |-> input_data.item[i].request.method]
                           = <<"GET", "POST", "GET">> )
                  => /\ [i \in 1..3 |-> processed[i].name] = <<"A", "A", "B">>
                     /\ [i \in 1..3 |-> processed[i].request.method]
                            = <<"GET", "POST", "GET">>

\* C4's case: the input B GET, A POST, A GET has been processed to the end.
C4_Witness ==
    /\ pc = "done"
    /\ Len(input_data.item) = 3
    /\ [i \in 1..3 |-> input_data.item[i].name] = <<"B", "A", "A">>
    /\ [i \in 1..3 |-> input_data.item[i].request.method] = <<"GET", "POST", "GET">>
    /\ Len(processed) = 3
    /\ processed[1].request.method = "GET"
    /\ processed[3].name = "B"

====
